---- MODULE Spec2Model ----
(***************************************************************************)
(* Secure music copyright application: the artefact integrity and          *)
(* access-control pipeline (checksum.py, encryption.py, user_manager.py,   *)
(* database.py, artefact_manager.py) and the console loop (main.py).       *)
(*                                                                         *)
(* Python values are modelled as follows.  A bytes object is a sequence of *)
(* byte values.  None is the record None.  A call that either returns or   *)
(* raises yields Ok(v) or Raise(exc).  Every operation of a manager is one *)
(* action; what it returned, printed, notified and wrote is recorded, in   *)
(* program order, in lastOp.                                               *)
(***************************************************************************)
EXTENDS Integers, Sequences, FiniteSets, TLC

VARIABLES
    users,          \* table users: user_id -> row (database.py:43)
    user_seq,       \* AUTOINCREMENT counter of users.user_id
    principals,     \* User / AdminUser objects handed out by register_user
    artefacts,      \* table artefacts: artefact_id -> row (database.py:54)
    artefact_seq,   \* AUTOINCREMENT counter of artefacts.artefact_id
    key,            \* EncryptionManager._key
    observers,      \* ArtefactManager.observers, in registration order
    supplied,       \* history: artefact_id -> source bytes of the most recent
                    \* create / update of it that returned success
    lastOp,         \* the last call: arguments, return value, event trace
    uncommitted,    \* artefact_ids inserted in the connection's open
                    \* transaction and not yet committed
    singleton,      \* DatabaseManager._instance, ._initialized, the
                    \* instance's connection, the handles that are open
    current_user,   \* UserManager.current_user
    run             \* main(): position of the menu loop, exit status

vars == <<users, user_seq, principals, artefacts, artefact_seq, key,
          observers, supplied, lastOp, uncommitted, singleton, current_user,
          run>>

(* The state of the console and of the connection object, which no method  *)
(* of a manager assigns.                                                   *)
appvars == <<singleton, current_user, run>>

----------------------------------------------------------------------------
(* Bounds of the model.                                                    *)

MaxUsers == 2
MaxArtefacts == 1
MaxObservers == 2
MaxOwned == 2
MaxConnections == 3

(* Input domains.                                                          *)

Usernames == {"alice", "bob"}
Passwords == {"pw"}
LoginPasswords == Passwords \cup {"wrong"}
Roles == {"admin", "user", "guest"}
FileContents == {<< >>, <<97>>}          \* b"", b"a"
Paths == {"song.txt"}
Names == {"Song"}
ArtefactTypes == {"lyrics", "video"}
Nonces == {"n1"}                           \* values of os.urandom(12)
Times == {"2025-01-01T10:00:00"}
                                          \* values of datetime.now().isoformat()
OutputPaths == {"", "output/artefact"}    \* "" stands for output_path=None
Plaintexts == {<< >>, <<97>>, <<98>>}     \* b"", b"a", b"b"
CryptoNonces == {"n1", "n2"}

----------------------------------------------------------------------------
(* Python values.                                                          *)

(* Values of different Python types are records with different fields, so  *)
(* that any two of them can be compared.                                   *)
None == [none |-> TRUE]
PyBool(b) == [bool |-> b]
PyInt(n) == [int |-> n]
PyBytes(d) == [bytes |-> d]
Ok(v) == [ok |-> v]
Raise(exc) == [raise |-> exc]
IsRaise(r) == DOMAIN r = {"raise"}
NULL == "NULL"                            \* SQL NULL in a timestamp column
PyList(rows) == [list |-> rows]           \* a list of rows, order left out

(* A file of the file system at the time of a call: absent, present but    *)
(* unreadable (open raises), or readable with its content.                 *)
FileStates ==
    {[exists |-> FALSE, readable |-> FALSE, data |-> << >>],
     [exists |-> TRUE, readable |-> FALSE, data |-> << >>]}
    \cup {[exists |-> TRUE, readable |-> TRUE, data |-> d] : d \in FileContents}

----------------------------------------------------------------------------
(* checksum.py                                                             *)

(* hashlib.sha256(data).hexdigest(), tabulated on the byte strings of the  *)
(* model with the values SHA-256 gives.                                    *)
sha256_hexdigest(data) ==
    CASE data = << >> ->
           "e3b0c44298fc1c149afbf4c8996fb92427ae41e4649b934ca495991b7852b855"
      [] data = <<97>> ->
           "ca978112ca1bbdcafac231b39a23dc4da786eff8147c4e72b9807785afee48bb"
      [] data = <<98>> ->
           "3e23e8160039594a33894f6564e1b1348bbd7a0088d42c4acb73eeaed59c009d"

calculate_checksum(data) == sha256_hexdigest(data)

(* Variant: a verification that accepts every digest.                      *)
verify_checksum_always(data, expected_checksum) == TRUE

verify_checksum(data, expected_checksum) ==
    LET calculated_checksum == calculate_checksum(data)
    IN  calculated_checksum = expected_checksum

----------------------------------------------------------------------------
(* encryption.py                                                           *)

KeyLen == 32

(* A key is its length in bytes and its material.                          *)
RandomKey == [len |-> KeyLen, material |-> "urandom"]
ShortKey == [len |-> 16, material |-> "short"]

(* hashlib.pbkdf2_hmac('sha256', password, salt, 100000)[:32], tabulated.  *)
pbkdf2_hmac(password) ==
    CASE password = "secure_master_key_2025" ->
           "3131bd56d1358f8ef05bdb80496b945c763daa25cd662c2d41c76a8519550ad3"
      [] password = "pw" ->
           "8b053ba151b43da6d03b878819429d2fe7a30f0cf1ff355b6e3e48f719485345"

DerivedKey(password) == [len |-> KeyLen, material |-> pbkdf2_hmac(password)]

MasterPasswords == {"secure_master_key_2025"}
KeyInputs == {RandomKey, ShortKey}

(* Variant: a cipher without authentication, which opens any box.         *)
AESGCM_decrypt_unauthenticated(k, nonce, ciphertext) == Ok(ciphertext.data)

(* AESGCM(key).encrypt(nonce, data, None): ciphertext with its tag.  The   *)
(* sealed box opens only under the key and nonce that sealed it and only   *)
(* while no byte of it was altered.                                        *)
AESGCM_encrypt(k, nonce, data) ==
    [key |-> k, nonce |-> nonce, data |-> data, altered |-> FALSE]

AESGCM_decrypt(k, nonce, ciphertext) ==
    IF ciphertext.key = k /\ ciphertext.nonce = nonce /\ ~ciphertext.altered
    THEN Ok(ciphertext.data)
    ELSE Raise("InvalidTag")

(* Variant: the ciphertext is returned without the nonce in front of it.   *)
encrypt_nonce_dropped(data, k, nonce) ==
    [nonce |-> "", ciphertext |-> AESGCM_encrypt(k, nonce, data)]

(* AES256GCMStrategy.encrypt: nonce + ciphertext.                          *)
encrypt(data, k, nonce) ==
    [nonce |-> nonce, ciphertext |-> AESGCM_encrypt(k, nonce, data)]

(* AES256GCMStrategy.decrypt: splits the first 12 bytes off as the nonce.  *)
decrypt(encrypted_data, k) ==
    LET nonce == encrypted_data.nonce
        ciphertext == encrypted_data.ciphertext
    IN  AESGCM_decrypt(k, nonce, ciphertext)

encrypt_data(data, nonce) ==
    IF key = None
    THEN Raise("ValueError: need to set key first")
    ELSE Ok(encrypt(data, key, nonce))

decrypt_data(encrypted_data) ==
    IF key = None
    THEN Raise("ValueError: need to set key first")
    ELSE decrypt(encrypted_data, key)

----------------------------------------------------------------------------
(* user_manager.py                                                         *)

NoUser == [user_id |-> 0, username |-> "", role |-> "", class |-> ""]

(* Variant: every principal is constructed as a plain User.                *)
NewPrincipal_plain(user_id, username, role) ==
    [user_id |-> user_id, username |-> username, role |-> role,
     class |-> "User"]

(* Variants of the permission methods.                                     *)
can_view_artefact_owner(user, artefact_owner_id) ==
    user.class = "AdminUser" \/ user.user_id = artefact_owner_id
can_modify_artefact_any(user, artefact_owner_id) == TRUE
can_delete_artefact_any(user, artefact_owner_id) == TRUE

(* register_user / login construct AdminUser for role admin, else User.    *)
NewPrincipal(user_id, username, role) ==
    [user_id |-> user_id, username |-> username, role |-> role,
     class |-> IF role = "admin" THEN "AdminUser" ELSE "User"]

can_view_artefact(user, artefact_owner_id) == TRUE

can_modify_artefact(user, artefact_owner_id) ==
    IF user.class = "AdminUser" THEN TRUE
    ELSE user.user_id = artefact_owner_id

can_delete_artefact(user, artefact_owner_id) ==
    IF user.class = "AdminUser" THEN TRUE
    ELSE user.user_id = artefact_owner_id

(* hashlib.sha256(password.encode()).hexdigest(), tabulated.               *)
hash_password(password) ==
    CASE password = "pw" ->
           "30c952fab122c3f9759f02a6d95c3758b246b4fee239957b2d4fee46e26170c4"
      [] password = "wrong" ->
           "8810ad581e59f2bc3928b261707a71308f7e139eb04820366dc4d5c18d980225"

----------------------------------------------------------------------------
(* database.py                                                             *)

Restrict(f, S) == [x \in S |-> f[x]]

(* Variant: user_id INTEGER PRIMARY KEY without AUTOINCREMENT, which gives  *)
(* the largest rowid in the table plus one.                                *)
create_user_lastrowid_max ==
    IF DOMAIN users = {} THEN 1
    ELSE (CHOOSE u \in DOMAIN users : \A v \in DOMAIN users : v <= u) + 1

(* users.user_id INTEGER PRIMARY KEY AUTOINCREMENT: one more than the      *)
(* largest identifier the table ever held.                                 *)
create_user_lastrowid == user_seq + 1

db_get_user(username) ==
    IF \E u \in DOMAIN users : users[u].username = username
    THEN users[CHOOSE u \in DOMAIN users : users[u].username = username]
    ELSE None

db_get_artefact(artefact_id) ==
    IF artefact_id \in DOMAIN artefacts THEN artefacts[artefact_id] ELSE None

(* The columns the two list queries select.                                *)
ListedColumns(artefact) ==
    [artefact_id |-> artefact.artefact_id,
     artefact_name |-> artefact.artefact_name,
     artefact_type |-> artefact.artefact_type,
     created_at |-> artefact.created_at,
     modified_at |-> artefact.modified_at,
     checksum |-> artefact.checksum]

(* SELECT ... FROM artefacts WHERE owner_id = ?                            *)
db_get_user_artefacts(user_id) ==
    {ListedColumns(artefacts[i]) :
        i \in {j \in DOMAIN artefacts : artefacts[j].owner_id = user_id}}

(* SELECT a..., u.username AS owner_username FROM artefacts a              *)
(* JOIN users u ON a.owner_id = u.user_id: one row per joined pair.        *)
db_get_all_artefacts ==
    {[row |-> ListedColumns(artefacts[pair[1]]),
      owner_username |-> users[pair[2]].username] :
        pair \in {q \in (DOMAIN artefacts) \X (DOMAIN users) :
                     artefacts[q[1]].owner_id = q[2]}}

(* INSERT INTO artefacts ...; commit: the table after the insert.  The     *)
(* connection never enables foreign keys, so owner_id is not checked.      *)
db_create_artefact(owner_id, artefact_name, artefact_type, file_path, encrypted_data, checksum, created_at) ==
    LET artefact_id == artefact_seq + 1
    IN  [i \in DOMAIN artefacts \cup {artefact_id} |->
            IF i = artefact_id
            THEN [artefact_id |-> artefact_id, owner_id |-> owner_id,
                  artefact_name |-> artefact_name,
                  artefact_type |-> artefact_type, file_path |-> file_path,
                  encrypted_data |-> encrypted_data, checksum |-> checksum,
                  created_at |-> created_at, modified_at |-> NULL]
            ELSE artefacts[i]]

(* Variant: the UPDATE leaves the checksum column out.                     *)
db_update_artefact_payload_only(artefact_id, encrypted_data, checksum, modified_at) ==
    [i \in DOMAIN artefacts |->
        IF i = artefact_id
        THEN [artefacts[i] EXCEPT !.encrypted_data = encrypted_data,
                                  !.modified_at = modified_at]
        ELSE artefacts[i]]

(* Variant: the UPDATE without its WHERE clause.                           *)
db_update_artefact_every_row(artefact_id, encrypted_data, checksum, modified_at) ==
    [i \in DOMAIN artefacts |->
        [artefacts[i] EXCEPT !.encrypted_data = encrypted_data,
                             !.checksum = checksum,
                             !.modified_at = modified_at]]

(* UPDATE artefacts SET encrypted_data, checksum, modified_at WHERE id.    *)
db_update_artefact(artefact_id, encrypted_data, checksum, modified_at) ==
    [i \in DOMAIN artefacts |->
        IF i = artefact_id
        THEN [artefacts[i] EXCEPT !.encrypted_data = encrypted_data,
                                  !.checksum = checksum,
                                  !.modified_at = modified_at]
        ELSE artefacts[i]]

(* DELETE FROM artefacts WHERE artefact_id = ?                             *)
db_delete_artefact(artefact_id) ==
    Restrict(artefacts, DOMAIN artefacts \ {artefact_id})

(* Variant: the users row is deleted alone.                                *)
db_delete_artefacts_of_nobody(user_id) == artefacts

(* DELETE FROM artefacts WHERE owner_id = ?                                *)
db_delete_artefacts_of(user_id) ==
    Restrict(artefacts,
             {i \in DOMAIN artefacts : artefacts[i].owner_id # user_id})

----------------------------------------------------------------------------
(* The record of a call.                                                   *)

NoFile == [exists |-> FALSE, readable |-> FALSE, data |-> << >>]

Call(op, artefact_id, user, file, output_path, ret, events) ==
    [op |-> op, artefact_id |-> artefact_id, user |-> user, file |-> file,
     output_path |-> output_path, ret |-> ret, events |-> events]

Printed(msg) == [e |-> "print", msg |-> msg]
Committed(artefact_id) == [e |-> "commit", artefact_id |-> artefact_id]
Notified(pos, artefact_id, timestamp) ==
    [e |-> "notify", pos |-> pos, observer |-> observers[pos],
     artefact_id |-> artefact_id, timestamp |-> timestamp]
Raised(pos) == [e |-> "raised", pos |-> pos, observer |-> observers[pos]]
(* The record of a call of a function of its arguments alone.              *)
Apply(op, args, ret) == [op |-> op, args |-> args, ret |-> ret]

Cascaded(ids) == [e |-> "cascade", ids |-> ids]
Wrote(output_path, data) ==
    [e |-> "write", output_path |-> output_path, data |-> data]
Did(what) == [e |-> what]

----------------------------------------------------------------------------
(* Initial state: MusicCopyrightApp has constructed the DatabaseManager    *)
(* over a fresh database, an EncryptionManager() with no key yet, a        *)
(* UserManager with nobody logged in and an ArtefactManager with no        *)
(* observer; main() has not entered the menu loop.                         *)

Init ==
    /\ users = << >>
    /\ user_seq = 0
    /\ principals = {}
    /\ artefacts = << >>
    /\ artefact_seq = 0
    /\ key = None
    /\ observers = << >>
    /\ supplied = << >>
    /\ lastOp = Call("init", 0, NoUser, NoFile, "", None, << >>)
    /\ uncommitted = {}
    /\ singleton = [objects |-> 1, instance |-> 1, initialized |-> TRUE,
                    opened |-> 1, connection |-> 1, handles |-> {1},
                    returned |-> {1}]
    /\ current_user = None
    /\ run = [pc |-> "menu", exit_code |-> None]

----------------------------------------------------------------------------
(* encryption.py: key management                                           *)

generate_key ==
    /\ key' = RandomKey
    /\ lastOp' = Call("generate_key", 0, NoUser, NoFile, "", PyBytes(RandomKey),
                      << >>)
    /\ UNCHANGED <<users, user_seq, principals, artefacts, artefact_seq,
                   observers, supplied, uncommitted>>
    /\ UNCHANGED appvars

set_key(k) ==
    /\ IF k.len # KeyLen
       THEN /\ key' = key
            /\ lastOp' = Call("set_key", 0, NoUser, NoFile, "",
                              Raise("ValueError: key must be 32 bytes"), << >>)
       ELSE /\ key' = k
            /\ lastOp' = Call("set_key", 0, NoUser, NoFile, "", None, << >>)
    /\ UNCHANGED <<users, user_seq, principals, artefacts, artefact_seq,
                   observers, supplied, uncommitted>>
    /\ UNCHANGED appvars

derive_key_from_password(password) ==
    /\ key' = DerivedKey(password)
    /\ lastOp' = Call("derive_key_from_password", 0, NoUser, NoFile, "",
                      PyBytes(DerivedKey(password)), << >>)
    /\ UNCHANGED <<users, user_seq, principals, artefacts, artefact_seq,
                   observers, supplied, uncommitted>>
    /\ UNCHANGED appvars

----------------------------------------------------------------------------
(* database.py: the singleton and its connection.  singleton holds the     *)
(* class attributes _instance (an object id, 0 for None) and _initialized, *)
(* the instance's attribute connection (a handle id), the handles that are *)
(* open, how many objects and handles were ever made, and the object ids   *)
(* that constructions have returned.                                       *)

(* Variant: __init__ without the _initialized test.                        *)
DatabaseManager_init_always(s) ==
    [s EXCEPT !.opened = @ + 1, !.connection = s.opened + 1,
              !.handles = @ \cup {s.opened + 1}, !.initialized = TRUE]

(* __new__: a new object only while _instance is None.                     *)
DatabaseManager_new(s) ==
    IF s.instance = 0
    THEN [s EXCEPT !.objects = @ + 1, !.instance = s.objects + 1]
    ELSE s

(* __init__: sqlite3.connect only while not _initialized.                  *)
DatabaseManager_init(s) ==
    IF ~s.initialized
    THEN [s EXCEPT !.opened = @ + 1, !.connection = s.opened + 1,
                   !.handles = @ \cup {s.opened + 1}, !.initialized = TRUE]
    ELSE s

(* DatabaseManager(): __new__, then __init__ on the object it returned.    *)
DatabaseManager_construct ==
    LET s == DatabaseManager_init(DatabaseManager_new(singleton))
    IN  /\ singleton' = [s EXCEPT !.returned = @ \cup {s.instance}]
        /\ lastOp' = Call("DatabaseManager", 0, NoUser, NoFile, "",
                          PyInt(s.instance), << >>)
        /\ UNCHANGED <<users, user_seq, principals, artefacts, artefact_seq,
                       key, observers, supplied, uncommitted, current_user,
                       run>>

(* What connection.close() leaves of the table: the open transaction is    *)
(* rolled back, with the identifiers it had taken.                         *)
RolledBack == Restrict(artefacts, DOMAIN artefacts \ uncommitted)

RolledBackSeq ==
    IF uncommitted = {} THEN artefact_seq
    ELSE (CHOOSE i \in uncommitted : \A j \in uncommitted : i <= j) - 1

(* close(): self.connection is a Connection object, closed or not, hence   *)
(* true.                                                                   *)
closed(s) ==
    [s EXCEPT !.handles = @ \ {s.connection}, !.initialized = FALSE]

close ==
    /\ singleton' = closed(singleton)
    /\ artefacts' = RolledBack
    /\ artefact_seq' = RolledBackSeq
    /\ supplied' = Restrict(supplied, DOMAIN supplied \cap DOMAIN RolledBack)
    /\ uncommitted' = {}
    /\ lastOp' = Call("close", 0, NoUser, NoFile, "", None, << >>)
    /\ UNCHANGED <<users, user_seq, principals, key, observers, current_user,
                   run>>

----------------------------------------------------------------------------
(* user_manager.py: register_user, with database.py: create_user           *)

register_user(username, password, role) ==
    /\ IF role \notin {"admin", "user"}
       THEN /\ lastOp' = Call("register_user", 0, NoUser, NoFile, "",
                   Raise("ValueError: role must be 'admin' or 'user'"), << >>)
            /\ UNCHANGED <<users, user_seq, principals, uncommitted>>
       ELSE IF db_get_user(username) # None
       THEN /\ lastOp' = Call("register_user", 0, NoUser, NoFile, "",
                   Raise("ValueError: username already exists"), << >>)
            /\ UNCHANGED <<users, user_seq, principals, uncommitted>>
       ELSE LET user_id == create_user_lastrowid
                user == NewPrincipal(user_id, username, role)
            IN  /\ users' = [u \in DOMAIN users \cup {user_id} |->
                               IF u = user_id
                               THEN [user_id |-> user_id,
                                     username |-> username,
                                     password_hash |-> hash_password(password),
                                     role |-> role]
                               ELSE users[u]]
                /\ user_seq' = user_id
                /\ principals' = principals \cup {user}
                /\ uncommitted' = {}
                /\ lastOp' = Call("register_user", 0, user, NoFile, "",
                                  Ok(user), << >>)
    /\ UNCHANGED <<artefacts, artefact_seq, key, observers, supplied>>
    /\ UNCHANGED appvars

(* Variant: a login that does not compare the password digests.           *)
login_result_any_password(username, password) ==
    LET user_data == db_get_user(username)
    IN  IF user_data = None THEN None
        ELSE NewPrincipal(user_data.user_id, user_data.username,
                          user_data.role)

(* user_manager.py: login.  What it returns: None, or a new User or        *)
(* AdminUser object made from the row.                                     *)
login_result(username, password) ==
    LET user_data == db_get_user(username)
        password_hash == hash_password(password)
    IN  IF user_data = None THEN None
        ELSE IF user_data.password_hash # password_hash THEN None
        ELSE NewPrincipal(user_data.user_id, user_data.username,
                          user_data.role)

login(username, password) ==
    LET user == login_result(username, password)
    IN  /\ principals' = IF user = None THEN principals
                         ELSE principals \cup {user}
        /\ lastOp' = Call("login", 0, NoUser, NoFile, "", user,
                          <<Did(username), Did(password)>>)
        /\ UNCHANGED <<users, user_seq, artefacts, artefact_seq, key,
                       observers, supplied, uncommitted>>
        /\ UNCHANGED appvars

set_current_user(user) ==
    /\ current_user' = user
    /\ lastOp' = Call("set_current_user", 0, user, NoFile, "", None, << >>)
    /\ UNCHANGED <<users, user_seq, principals, artefacts, artefact_seq, key,
                   observers, supplied, uncommitted, singleton, run>>

logout ==
    /\ current_user' = None
    /\ lastOp' = Call("logout", 0, NoUser, NoFile, "", None, << >>)
    /\ UNCHANGED <<users, user_seq, principals, artefacts, artefact_seq, key,
                   observers, supplied, uncommitted, singleton, run>>

(* database.py: delete_user.  The row count reported is that of the last   *)
(* statement, the DELETE on users.                                         *)
delete_user(user_id) ==
    /\ artefacts' = db_delete_artefacts_of(user_id)
    /\ users' = Restrict(users, DOMAIN users \ {user_id})
    /\ supplied' = Restrict(supplied, DOMAIN supplied \cap DOMAIN artefacts')
    /\ uncommitted' = {}
    /\ lastOp' = Call("delete_user", 0,
                      [NoUser EXCEPT !.user_id = user_id], NoFile, "",
                      PyBool(user_id \in DOMAIN users),
                      <<Cascaded(DOMAIN artefacts \ DOMAIN artefacts'),
                        Committed(0)>>)
    /\ UNCHANGED <<user_seq, principals, artefact_seq, key, observers>>
    /\ UNCHANGED appvars

----------------------------------------------------------------------------
(* artefact_manager.py                                                     *)

ValidTypes == {"lyrics", "score", "audio"}

(* What self.db.create_artefact does on a call: it returns the new id; its *)
(* INSERT raises, which leaves the table as it was; or its INSERT is done  *)
(* and its commit raises (the database file is locked by another process), *)
(* which leaves the inserted row in the connection's open transaction.     *)
PersistOutcomes == {"ok", "execute_raises", "commit_raises"}

(* Observers are objects of the caller.  TimestampObserver's handler is    *)
(* `pass` and never raises; a handler written by the caller may raise on   *)
(* any call.                                                               *)
ObserverObjects == {"timestamp_observer", "custom_observer"}
MayRaise(observer) == observer = "custom_observer"

add_observer(observer) ==
    /\ observers' = Append(observers, observer)
    /\ lastOp' = Call("add_observer", 0, NoUser, NoFile, "", None, << >>)
    /\ UNCHANGED <<users, user_seq, principals, artefacts, artefact_seq, key,
                   supplied, uncommitted>>
    /\ UNCHANGED appvars

(* Variants: only the first handler runs; a raising handler does not end   *)
(* the loop.                                                               *)
notify_observers_first(artefact_id, timestamp, raiser) ==
    [pos \in 1..(IF Len(observers) = 0 THEN 0 ELSE 1) |->
        Notified(pos, artefact_id, timestamp)]
notify_observers_isolated(artefact_id, timestamp, raiser) ==
    [pos \in 1..Len(observers) |-> Notified(pos, artefact_id, timestamp)]

(* _notify_observers: the handlers run in list order; `raiser` is the      *)
(* position of the first handler that raises on this call, 0 if none does. *)
(* The loop ends at the handler that raises.                               *)
NotifyCount(raiser) == IF raiser = 0 THEN Len(observers) ELSE raiser

notify_observers(artefact_id, timestamp, raiser) ==
    [pos \in 1..NotifyCount(raiser) |-> Notified(pos, artefact_id, timestamp)]

Raisers == {r \in 0..Len(observers) : r = 0 \/ MayRaise(observers[r])}

create_artefact(owner, file_path, file, artefact_name, artefact_type, nonce, created_at, persist) ==
    LET checksum == calculate_checksum(file.data)
        encrypted_data == encrypt_data(file.data, nonce)
        artefact_id == artefact_seq + 1
        call(ret, events) ==
            Call("create_artefact", 0, owner, file, "", ret, events)
    IN
    /\ IF artefact_type \notin ValidTypes
       THEN /\ lastOp' = call(Raise("ValueError"), << >>)
            /\ UNCHANGED <<artefacts, artefact_seq, supplied, uncommitted>>
       ELSE IF ~file.exists
       THEN /\ lastOp' = call(Raise("FileNotFoundError"), << >>)
            /\ UNCHANGED <<artefacts, artefact_seq, supplied, uncommitted>>
       ELSE IF ~file.readable
       THEN /\ lastOp' = call(None,
                   <<Printed("Error creating artefact: PermissionError")>>)
            /\ UNCHANGED <<artefacts, artefact_seq, supplied, uncommitted>>
       ELSE IF IsRaise(encrypted_data)
       THEN /\ lastOp' = call(None,
                   <<Printed("Error creating artefact: need to set key first")>>)
            /\ UNCHANGED <<artefacts, artefact_seq, supplied, uncommitted>>
       ELSE IF persist = "execute_raises"
       THEN /\ lastOp' = call(None,
                   <<Printed("FILE UPLOAD VERIFICATION"),
                     Printed("Error creating artefact: OperationalError")>>)
            /\ UNCHANGED <<artefacts, artefact_seq, supplied, uncommitted>>
       ELSE IF persist = "commit_raises"
       THEN /\ artefacts' = db_create_artefact(owner.user_id, artefact_name,
                                artefact_type, file_path, encrypted_data.ok,
                                checksum, created_at)
            /\ artefact_seq' = artefact_id
            /\ uncommitted' = uncommitted \cup {artefact_id}
            /\ supplied' = supplied
            /\ lastOp' = call(None,
                   <<Printed("FILE UPLOAD VERIFICATION"),
                     Did("insert"),
                     Printed("Error creating artefact: OperationalError")>>)
       ELSE /\ artefacts' = db_create_artefact(owner.user_id, artefact_name,
                                artefact_type, file_path, encrypted_data.ok,
                                checksum, created_at)
            /\ artefact_seq' = artefact_id
            /\ uncommitted' = {}
            /\ supplied' = [i \in DOMAIN supplied \cup {artefact_id} |->
                              IF i = artefact_id THEN file.data
                              ELSE supplied[i]]
            /\ lastOp' = [call(PyInt(artefact_id),
                               <<Printed("FILE UPLOAD VERIFICATION"),
                                 Did("insert"), Committed(artefact_id)>>)
                          EXCEPT !.artefact_id = artefact_id]
    /\ UNCHANGED <<users, user_seq, principals, key, observers>>
    /\ UNCHANGED appvars

read_artefact(artefact_id, user) ==
    LET artefact == db_get_artefact(artefact_id)
        call(ret) ==
            Call("read_artefact", artefact_id, user, NoFile, "", ret, << >>)
    IN
    /\ IF artefact = None
       THEN lastOp' = call(None)
       ELSE IF ~can_view_artefact(user, artefact.owner_id)
       THEN lastOp' = call(None)
       ELSE lastOp' = call(Ok([artefact_id |-> artefact.artefact_id,
                               artefact_name |-> artefact.artefact_name,
                               artefact_type |-> artefact.artefact_type,
                               created_at |-> artefact.created_at,
                               modified_at |-> artefact.modified_at,
                               checksum |-> artefact.checksum]))
    /\ UNCHANGED <<users, user_seq, principals, artefacts, artefact_seq, key,
                   observers, supplied, uncommitted>>
    /\ UNCHANGED appvars

(* Variant: the plaintext is written and returned without the comparison.  *)
decrypt_and_verify_unchecked(artefact, output_path) ==
    LET decrypted_data == decrypt_data(artefact.encrypted_data)
    IN  IF IsRaise(decrypted_data)
        THEN [ret |-> None,
              events |-> <<Printed("Error retrieving artefact: "
                                   \o decrypted_data.raise)>>]
        ELSE IF output_path # ""
        THEN [ret |-> PyBytes(decrypted_data.ok),
              events |-> <<Did("decrypt"),
                           Wrote(output_path, decrypted_data.ok)>>]
        ELSE [ret |-> PyBytes(decrypted_data.ok), events |-> <<Did("decrypt")>>]

(* The try block of get_artefact_data: decrypt, recompute the digest,       *)
(* compare, write the sink, return; any exception ends in return None.     *)
decrypt_and_verify(artefact, output_path) ==
    LET decrypted_data == decrypt_data(artefact.encrypted_data)
        calculated_checksum == calculate_checksum(decrypted_data.ok)
    IN  IF IsRaise(decrypted_data)
        THEN [ret |-> None,
              events |-> <<Printed("Error retrieving artefact: "
                                   \o decrypted_data.raise)>>]
        ELSE IF calculated_checksum # artefact.checksum
        THEN [ret |-> None,
              events |-> <<Did("decrypt"),
                           Printed("WARNING: Checksum mismatch!")>>]
        ELSE IF output_path # ""
        THEN [ret |-> PyBytes(decrypted_data.ok),
              events |-> <<Did("decrypt"),
                           Printed("Checksum verification: PASSED"),
                           Wrote(output_path, decrypted_data.ok)>>]
        ELSE [ret |-> PyBytes(decrypted_data.ok),
              events |-> <<Did("decrypt"),
                           Printed("Checksum verification: PASSED")>>]

get_artefact_data(artefact_id, user, output_path) ==
    LET artefact == db_get_artefact(artefact_id)
        result == decrypt_and_verify(artefact, output_path)
        call(ret, events) ==
            Call("get_artefact_data", artefact_id, user, NoFile, output_path,
                 ret, events)
    IN
    /\ IF artefact = None
       THEN lastOp' = call(None, << >>)
       ELSE IF ~can_view_artefact(user, artefact.owner_id)
       THEN lastOp' = call(None, << >>)
       ELSE lastOp' = call(result.ret, result.events)
    /\ UNCHANGED <<users, user_seq, principals, artefacts, artefact_seq, key,
                   observers, supplied, uncommitted>>
    /\ UNCHANGED appvars

update_artefact(artefact_id, file, user, nonce, modified_at, timestamp, raiser) ==
    LET artefact == db_get_artefact(artefact_id)
        checksum == calculate_checksum(file.data)
        encrypted_data == encrypt_data(file.data, nonce)
        call(ret, events) ==
            Call("update_artefact", artefact_id, user, file, "", ret, events)
    IN
    /\ raiser \in Raisers
    /\ IF artefact = None
       THEN /\ lastOp' = call(PyBool(FALSE), << >>)
            /\ UNCHANGED <<artefacts, supplied, uncommitted>>
       ELSE IF ~can_modify_artefact(user, artefact.owner_id)
       THEN /\ lastOp' = call(PyBool(FALSE), <<Printed("Permission denied")>>)
            /\ UNCHANGED <<artefacts, supplied, uncommitted>>
       ELSE IF ~file.exists
       THEN /\ lastOp' = call(Raise("FileNotFoundError"), << >>)
            /\ UNCHANGED <<artefacts, supplied, uncommitted>>
       ELSE IF ~file.readable
       THEN /\ lastOp' = call(PyBool(FALSE),
                   <<Printed("Error updating artefact: PermissionError")>>)
            /\ UNCHANGED <<artefacts, supplied, uncommitted>>
       ELSE IF IsRaise(encrypted_data)
       THEN /\ lastOp' = call(PyBool(FALSE),
                   <<Printed("Error updating artefact: need to set key first")>>)
            /\ UNCHANGED <<artefacts, supplied, uncommitted>>
       ELSE /\ artefacts' = db_update_artefact(artefact_id, encrypted_data.ok,
                                               checksum, modified_at)
            /\ uncommitted' = {}
            /\ IF raiser = 0
               THEN /\ lastOp' = call(PyBool(TRUE),
                           <<Committed(artefact_id)>>
                           \o notify_observers(artefact_id, timestamp, raiser))
                    /\ supplied' = [i \in DOMAIN supplied \cup {artefact_id} |->
                                      IF i = artefact_id THEN file.data
                                      ELSE supplied[i]]
               ELSE /\ lastOp' = call(PyBool(FALSE),
                           <<Committed(artefact_id)>>
                           \o notify_observers(artefact_id, timestamp, raiser)
                           \o <<Raised(raiser),
                                Printed("Error updating artefact: observer")>>)
                    /\ supplied' = supplied
    /\ UNCHANGED <<users, user_seq, principals, artefact_seq, key, observers>>
    /\ UNCHANGED appvars

delete_artefact(artefact_id, user) ==
    LET artefact == db_get_artefact(artefact_id)
        call(ret, events) ==
            Call("delete_artefact", artefact_id, user, NoFile, "", ret, events)
    IN
    /\ IF artefact = None
       THEN /\ lastOp' = call(PyBool(FALSE), << >>)
            /\ UNCHANGED <<artefacts, supplied, uncommitted>>
       ELSE IF ~can_delete_artefact(user, artefact.owner_id)
       THEN /\ lastOp' = call(PyBool(FALSE), <<Printed("Permission denied")>>)
            /\ UNCHANGED <<artefacts, supplied, uncommitted>>
       ELSE /\ artefacts' = db_delete_artefact(artefact_id)
            /\ supplied' = Restrict(supplied,
                                    DOMAIN supplied \cap DOMAIN artefacts')
            /\ uncommitted' = {}
            /\ lastOp' = call(PyBool(TRUE), <<Committed(artefact_id)>>)
    /\ UNCHANGED <<users, user_seq, principals, artefact_seq, key, observers>>
    /\ UNCHANGED appvars

list_user_artefacts(user) ==
    /\ lastOp' = Call("list_user_artefacts", 0, user, NoFile, "",
                      PyList(db_get_user_artefacts(user.user_id)), << >>)
    /\ UNCHANGED <<users, user_seq, principals, artefacts, artefact_seq, key,
                   observers, supplied, uncommitted>>
    /\ UNCHANGED appvars

list_all_artefacts(user) ==
    /\ IF user.role # "admin"
       THEN lastOp' = Call("list_all_artefacts", 0, user, NoFile, "",
                           PyList({}), << >>)
       ELSE lastOp' = Call("list_all_artefacts", 0, user, NoFile, "",
                           PyList(db_get_all_artefacts), << >>)
    /\ UNCHANGED <<users, user_seq, principals, artefacts, artefact_seq, key,
                   observers, supplied, uncommitted>>
    /\ UNCHANGED appvars

----------------------------------------------------------------------------
(* main.py: the menu operations of MusicCopyrightApp, run() and main().    *)
(* One action is one turn of the loop of run(): the menu, the choice, the  *)
(* operation chosen and the "Press Enter" prompt.                          *)

(* run() is in its loop: MusicCopyrightApp.__init__ has derived the key    *)
(* and main() has not ended.                                               *)
InMenu == run.pc = "menu" /\ key # None

menu_register(username, password, role) ==
    /\ InMenu
    /\ register_user(username, password, role)

menu_login(username, password) ==
    LET user == login_result(username, password)
    IN  /\ InMenu
        /\ principals' = IF user = None THEN principals
                         ELSE principals \cup {user}
        /\ current_user' = IF user = None THEN current_user ELSE user
        /\ lastOp' = Call("menu_login", 0, NoUser, NoFile, "", user,
                          <<Did(username), Did(password),
                            Printed(IF user = None
                                    THEN "Login failed"
                                    ELSE "Login successful!")>>)
        /\ UNCHANGED <<users, user_seq, artefacts, artefact_seq, key,
                       observers, supplied, uncommitted, singleton, run>>

menu_logout ==
    /\ InMenu
    /\ current_user' = None
    /\ lastOp' = Call("menu_logout", 0, NoUser, NoFile, "", None,
                      <<Printed(IF current_user = None
                                THEN "No user is currently logged in."
                                ELSE "Logged out successfully.")>>)
    /\ UNCHANGED <<users, user_seq, principals, artefacts, artefact_seq, key,
                   observers, supplied, uncommitted, singleton, run>>

menu_create(file_path, file, artefact_name, artefact_type, nonce, created_at, persist) ==
    /\ InMenu
    /\ IF current_user = None \/ artefact_type \notin ValidTypes
       THEN /\ lastOp' = Call("menu_create", 0, NoUser, file, "", None,
                              <<Printed(IF current_user = None
                                        THEN "Please login first."
                                        ELSE "Invalid artefact type.")>>)
            /\ UNCHANGED <<users, user_seq, principals, artefacts,
                           artefact_seq, key, observers, supplied,
                           uncommitted>>
            /\ UNCHANGED appvars
       ELSE create_artefact(current_user, file_path, file, artefact_name,
                            artefact_type, nonce, created_at, persist)

(* A menu operation that ends at one of its own messages, before it calls  *)
(* a manager.                                                              *)
menu_refuses(op, msg) ==
    /\ lastOp' = Call(op, 0, NoUser, NoFile, "", None, <<Printed(msg)>>)
    /\ UNCHANGED <<users, user_seq, principals, artefacts, artefact_seq, key,
                   observers, supplied, uncommitted>>
    /\ UNCHANGED appvars

(* An exception of the manager is caught and printed by the operation.     *)
menu_update(artefact_id, file, nonce, modified_at, timestamp, raiser) ==
    /\ InMenu
    /\ IF current_user = None
       THEN menu_refuses("menu_update", "Please login first.")
       ELSE update_artefact(artefact_id, file, current_user, nonce,
                            modified_at, timestamp, raiser)

menu_delete(artefact_id, confirm) ==
    /\ InMenu
    /\ IF current_user = None
       THEN menu_refuses("menu_delete", "Please login first.")
       ELSE IF confirm # "yes"
       THEN menu_refuses("menu_delete", "Deletion cancelled.")
       ELSE delete_artefact(artefact_id, current_user)

(* Choice '10' reaches delete_user only for a logged-in admin; the         *)
(* operation tests the same again.                                         *)
menu_delete_user(username, confirm) ==
    LET user_data == db_get_user(username)
    IN  /\ InMenu
        /\ IF current_user = None
           THEN menu_refuses("menu_delete_user", "Invalid choice.")
           ELSE IF current_user.role # "admin"
           THEN menu_refuses("menu_delete_user", "Invalid choice.")
           ELSE IF user_data = None
           THEN menu_refuses("menu_delete_user", "User not found.")
           ELSE IF confirm # "yes"
           THEN menu_refuses("menu_delete_user", "Deletion cancelled.")
           ELSE delete_user(user_data.user_id)

(* Variant: the exception is reported and the loop goes on.                *)
main_except_resume(exc) == [pc |-> "menu", exit_code |-> None]

(* The except clauses of main(): sys.exit(0) on KeyboardInterrupt,         *)
(* sys.exit(1) on any other Exception.                                     *)
main_except(exc) ==
    IF exc = "KeyboardInterrupt"
    THEN [pc |-> "exited", exit_code |-> PyInt(0)]
    ELSE [pc |-> "exited", exit_code |-> PyInt(1)]

(* The finally clause of main(): DatabaseManager().close().                *)
main_finally ==
    LET s == DatabaseManager_init(DatabaseManager_new(singleton))
    IN  /\ singleton' = closed([s EXCEPT !.returned = @ \cup {s.instance}])
        /\ artefacts' = RolledBack
        /\ artefact_seq' = RolledBackSeq
        /\ supplied' = Restrict(supplied,
                                DOMAIN supplied \cap DOMAIN RolledBack)
        /\ uncommitted' = {}

(* Choice '0': run() breaks out of its loop and main() returns.            *)
menu_exit ==
    /\ InMenu
    /\ run' = [pc |-> "exited", exit_code |-> PyInt(0)]
    /\ main_finally
    /\ lastOp' = Call("menu", 0, NoUser, NoFile, "", None,
                      <<Printed("Thank you for using the application!")>>)
    /\ UNCHANGED <<users, user_seq, principals, key, observers,
                   current_user>>

(* An exception leaves run(): no statement of run() catches one.  exc is   *)
(* KeyboardInterrupt (Ctrl-C at a prompt) or an Exception that the menu    *)
(* operation does not handle itself, such as EOFError from input() or a    *)
(* sqlite3 error from a call that no try statement encloses.               *)
menu_raises(exc) ==
    /\ InMenu
    /\ run' = main_except(exc)
    /\ main_finally
    /\ lastOp' = Call("menu", 0, NoUser, NoFile, "", Raise(exc),
                      <<Printed(IF exc = "KeyboardInterrupt"
                                THEN "Application interrupted by user."
                                ELSE "Fatal error")>>)
    /\ UNCHANGED <<users, user_seq, principals, key, observers,
                   current_user>>

----------------------------------------------------------------------------
(* Direct modification of the stored rows, behind the application's back.  *)

AlteredNonce == "altered"

(* Bytes of the stored payload are altered: in its nonce prefix or in its  *)
(* ciphertext-with-tag.                                                    *)
corrupt_payload(artefact_id, part) ==
    /\ artefact_id \in DOMAIN artefacts
    /\ artefacts' =
         [artefacts EXCEPT ![artefact_id].encrypted_data =
            IF part = "nonce"
            THEN [@ EXCEPT !.nonce = AlteredNonce]
            ELSE [@ EXCEPT !.ciphertext.altered = TRUE]]
    /\ lastOp' = Call("corrupt_payload", artefact_id, NoUser, NoFile, "", None,
                      << >>)
    /\ UNCHANGED <<users, user_seq, principals, artefact_seq, key, observers,
                   supplied, uncommitted>>
    /\ UNCHANGED appvars

(* The stored digest is overwritten.                                       *)
overwrite_checksum(artefact_id, checksum) ==
    /\ artefact_id \in DOMAIN artefacts
    /\ artefacts' = [artefacts EXCEPT ![artefact_id].checksum = checksum]
    /\ lastOp' = Call("overwrite_checksum", artefact_id, NoUser, NoFile, "",
                      None, << >>)
    /\ UNCHANGED <<users, user_seq, principals, artefact_seq, key, observers,
                   supplied, uncommitted>>
    /\ UNCHANGED appvars

----------------------------------------------------------------------------
(* Specifications.                                                         *)

ArtefactIds == 1..(artefact_seq + 1)

ReadableFiles == {file \in FileStates : file.readable /\ file.data # << >>}

KeyChange ==
    \/ generate_key
    \/ \E k \in KeyInputs : set_key(k)
    \/ \E password \in MasterPasswords : derive_key_from_password(password)

DeriveKey ==
    \E password \in MasterPasswords : derive_key_from_password(password)

Register(names, roles) ==
    /\ user_seq < MaxUsers
    /\ \E username \in names, password \in Passwords, role \in roles :
          register_user(username, password, role)

Login ==
    \E username \in Usernames, password \in LoginPasswords :
        login(username, password)

SetCurrentUser == \E user \in principals : set_current_user(user)

Logout == logout

DeleteUser == \E user_id \in 1..user_seq : delete_user(user_id)

CreateUpTo(bound, files, outcomes) ==
    /\ artefact_seq < bound
    /\ \E owner \in principals, file_path \in Paths, file \in files,
          artefact_name \in Names, artefact_type \in ArtefactTypes,
          nonce \in Nonces, created_at \in Times,
          persist \in outcomes :
          create_artefact(owner, file_path, file, artefact_name,
                          artefact_type, nonce, created_at, persist)

CreateWith(outcomes) == CreateUpTo(MaxArtefacts, FileStates, outcomes)

Create == CreateWith(PersistOutcomes)

Read ==
    \E artefact_id \in ArtefactIds, user \in principals :
        read_artefact(artefact_id, user)

RetrieveContent ==
    \E artefact_id \in ArtefactIds, user \in principals,
       output_path \in OutputPaths :
        get_artefact_data(artefact_id, user, output_path)

Update ==
    \E artefact_id \in ArtefactIds, file \in FileStates, user \in principals,
       nonce \in Nonces, modified_at \in Times, timestamp \in Times,
       raiser \in 0..MaxObservers :
        update_artefact(artefact_id, file, user, nonce, modified_at, timestamp,
                        raiser)

Delete ==
    \E artefact_id \in ArtefactIds, user \in principals :
        delete_artefact(artefact_id, user)

(* The keys an EncryptionManager can hold, and what encrypt_data can have  *)
(* returned under one of them.                                             *)
Passphrases == MasterPasswords \cup Passwords

ActiveKeys == {RandomKey} \cup {DerivedKey(password) : password \in Passphrases}

Payloads ==
    {encrypt(data, k, nonce) :
        data \in Plaintexts, k \in ActiveKeys, nonce \in CryptoNonces}

(* Digest strings: those of the byte strings of the model, one of them in  *)
(* upper case, and the empty string.                                       *)
Digests ==
    {sha256_hexdigest(data) : data \in Plaintexts}
    \cup {"", "CA978112CA1BBDCAFAC231B39A23DC4DA786EFF8147C4E72B9807785AFEE48BB"}

EncryptData ==
    \E data \in Plaintexts, nonce \in CryptoNonces :
        /\ lastOp' = Apply("encrypt_data", <<data>>, encrypt_data(data, nonce))
        /\ UNCHANGED <<users, user_seq, principals, artefacts, artefact_seq,
                       key, observers, supplied, uncommitted>>
        /\ UNCHANGED appvars

DecryptData ==
    \E encrypted_data \in Payloads :
        /\ lastOp' = Apply("decrypt_data", <<encrypted_data>>,
                           decrypt_data(encrypted_data))
        /\ UNCHANGED <<users, user_seq, principals, artefacts, artefact_seq,
                       key, observers, supplied, uncommitted>>
        /\ UNCHANGED appvars

CalculateChecksum ==
    \E data \in Plaintexts :
        /\ lastOp' = Apply("calculate_checksum", <<data>>,
                           calculate_checksum(data))
        /\ UNCHANGED <<users, user_seq, principals, artefacts, artefact_seq,
                       key, observers, supplied, uncommitted>>
        /\ UNCHANGED appvars

VerifyChecksum ==
    \E data \in Plaintexts, expected_checksum \in Digests :
        /\ lastOp' = Apply("verify_checksum", <<data, expected_checksum>>,
                           PyBool(verify_checksum(data, expected_checksum)))
        /\ UNCHANGED <<users, user_seq, principals, artefacts, artefact_seq,
                       key, observers, supplied, uncommitted>>
        /\ UNCHANGED appvars

MenuRegisterOf(names, roles) ==
    /\ user_seq < MaxUsers
    /\ \E username \in names, password \in Passwords, role \in roles :
          menu_register(username, password, role)

MenuRegister == MenuRegisterOf(Usernames, Roles)

MenuLogin ==
    \E username \in Usernames, password \in LoginPasswords :
        menu_login(username, password)

MenuLogout == menu_logout

MenuCreate ==
    /\ artefact_seq < MaxArtefacts
    /\ \E file_path \in Paths, file \in FileStates, artefact_name \in Names,
          artefact_type \in ArtefactTypes, nonce \in Nonces,
          created_at \in Times, persist \in PersistOutcomes :
          menu_create(file_path, file, artefact_name, artefact_type, nonce,
                      created_at, persist)

MenuUpdate ==
    \E artefact_id \in ArtefactIds, file \in FileStates, nonce \in Nonces,
       modified_at \in Times, timestamp \in Times, raiser \in 0..MaxObservers :
        menu_update(artefact_id, file, nonce, modified_at, timestamp, raiser)

Confirmations == {"yes", "no"}

MenuDelete ==
    \E artefact_id \in ArtefactIds, confirm \in Confirmations :
        menu_delete(artefact_id, confirm)

MenuDeleteUser ==
    \E username \in Usernames, confirm \in Confirmations :
        menu_delete_user(username, confirm)

MenuExit == menu_exit

Escaping == {"KeyboardInterrupt", "EOFError", "OperationalError"}

MenuRaises == \E exc \in Escaping : menu_raises(exc)

Construct ==
    /\ singleton.initialized \/ singleton.opened < MaxConnections
    /\ DatabaseManager_construct

Close == close

(* The managers' operations are issued while the connection is open.       *)
Connected == singleton.connection \in singleton.handles

ListMine == \E user \in principals : list_user_artefacts(user)

ListAll == \E user \in principals : list_all_artefacts(user)

AddObserver ==
    /\ Len(observers) < MaxObservers
    /\ \E observer \in ObserverObjects : add_observer(observer)

Tamper ==
    \/ \E artefact_id \in ArtefactIds, part \in {"nonce", "ciphertext"} :
          corrupt_payload(artefact_id, part)
    \/ \E artefact_id \in ArtefactIds, data \in FileContents :
          overwrite_checksum(artefact_id, calculate_checksum(data))

(* The artefact lifecycle as its callers drive it.                         *)
Next ==
    \/ DeriveKey
    \/ Register(Usernames, Roles)
    \/ Create
    \/ RetrieveContent
    \/ Update
    \/ Delete

Spec == Init /\ [][Next]_vars

(* Every operation that writes the store, users deleted included.          *)
NextStore ==
    \/ KeyChange
    \/ Register({"alice"}, {"user"})
    \/ DeleteUser
    \/ CreateWith({"ok", "execute_raises"})
    \/ Update
    \/ Delete

SpecStore == Init /\ [][NextStore]_vars

(* The lifecycle with observers registered.                                *)
NextObservers ==
    \/ DeriveKey
    \/ Register({"alice"}, Roles)
    \/ AddObserver
    \/ Create
    \/ Read
    \/ RetrieveContent
    \/ ListMine
    \/ ListAll
    \/ Update
    \/ Delete

SpecObservers == Init /\ [][NextObservers]_vars

(* Retrieval from a store whose rows are modified behind the application.  *)
NextTamper ==
    \/ KeyChange
    \/ Register({"alice"}, Roles)
    \/ Create
    \/ RetrieveContent
    \/ Tamper

SpecTamper == Init /\ [][NextTamper]_vars

(* Users deleted while the principals made for them are still held, with   *)
(* up to MaxOwned artefacts to an owner.                                   *)
NextCascade ==
    \/ DeriveKey
    \/ Register({"alice"}, {"user"})
    \/ Register({"bob"}, {"admin"})
    \/ DeleteUser
    \/ CreateUpTo(MaxOwned, ReadableFiles, {"ok"})
    \/ Read
    \/ RetrieveContent
    \/ ListAll

SpecCascade == Init /\ [][NextCascade]_vars

(* Updates by an owner and by an administrator among up to MaxOwned        *)
(* artefacts.                                                              *)
NextFrame ==
    \/ DeriveKey
    \/ Register({"alice"}, {"user"})
    \/ Register({"bob"}, {"admin"})
    \/ CreateUpTo(MaxOwned, ReadableFiles, {"ok"})
    \/ Update
    \/ Delete

SpecFrame == Init /\ [][NextFrame]_vars

(* The life of an identifier: creates that succeed or fail at commit,      *)
(* reads, updates, deletes and deletes of the owner.                       *)
NextLifecycle ==
    \/ DeriveKey
    \/ Register({"alice"}, {"user"})
    \/ Register({"bob"}, {"admin"})
    \/ DeleteUser
    \/ CreateUpTo(MaxOwned, ReadableFiles, {"ok", "commit_raises"})
    \/ Read
    \/ RetrieveContent
    \/ Update
    \/ Delete

SpecLifecycle == Init /\ [][NextLifecycle]_vars

(* Constructions and close() calls of the DatabaseManager, among creates   *)
(* on the connection they share.                                           *)
NextSingleton ==
    \/ Construct
    \/ Close
    \/ Connected /\ DeriveKey
    \/ Connected /\ Register({"alice"}, {"user"})
    \/ Connected /\ CreateWith({"ok", "commit_raises"})

SpecSingleton == Init /\ [][NextSingleton]_vars

(* The EncryptionManager and the ChecksumManager called on their own.      *)
NextCrypto ==
    \/ KeyChange
    \/ \E password \in Passphrases : derive_key_from_password(password)
    \/ EncryptData
    \/ DecryptData
    \/ CalculateChecksum
    \/ VerifyChecksum

SpecCrypto == Init /\ [][NextCrypto]_vars

(* Users registered, logged in and deleted.                                *)
NextUsers ==
    \/ Register(Usernames, Roles)
    \/ Login
    \/ SetCurrentUser
    \/ Logout
    \/ DeleteUser

SpecUsers == Init /\ [][NextUsers]_vars

(* The console: main() running the menu loop.                              *)
NextConsole ==
    \/ key = None /\ DeriveKey
    \/ MenuRegister
    \/ MenuLogin
    \/ MenuLogout
    \/ MenuCreate
    \/ MenuExit
    \/ MenuRaises

SpecConsole == Init /\ [][NextConsole]_vars

(* A session at the console: the operations that change the users, the     *)
(* artefacts or who is logged in.                                          *)
NextSession ==
    \/ key = None /\ DeriveKey
    \/ MenuRegisterOf({"alice"}, {"admin", "user"})
    \/ MenuLogin
    \/ MenuLogout
    \/ MenuCreate
    \/ MenuUpdate
    \/ MenuDelete
    \/ MenuDeleteUser

SpecSession == Init /\ [][NextSession]_vars

----------------------------------------------------------------------------
(* Properties.                                                             *)

IsStandard(user) == user.role = "user"
IsElevated(user) == user.role = "admin"
Plaintext(artefact) == artefact.encrypted_data.ciphertext.data
HasEvent(ev) == \E k \in 1..Len(lastOp.events) : lastOp.events[k] = ev
EventKinds(kind) ==
    {k \in 1..Len(lastOp.events) : lastOp.events[k].e = kind}

(* C1: every stored row's checksum is the digest of the plaintext that was *)
(* encrypted into the row's stored payload.                                *)
C1_DigestOfStoredPayload ==
    \A i \in DOMAIN artefacts :
        artefacts[i].checksum = sha256_hexdigest(Plaintext(artefacts[i]))

(* An update under another key than the row was created under succeeded.   *)
C1_Witness ==
    /\ lastOp.op = "update_artefact"
    /\ lastOp.ret = PyBool(TRUE)
    /\ artefacts[lastOp.artefact_id].encrypted_data.ciphertext.key = RandomKey
    /\ Plaintext(artefacts[lastOp.artefact_id]) = <<97>>
    /\ artefacts[lastOp.artefact_id].modified_at # NULL

(* C2: get_artefact_data returns either nothing or exactly the bytes       *)
(* supplied by the most recent create / update of that identifier that     *)
(* returned success.                                                       *)
C2_RetrievedIsLastSupplied ==
    lastOp.op = "get_artefact_data" =>
        \/ lastOp.ret = None
        \/ /\ lastOp.artefact_id \in DOMAIN supplied
           /\ lastOp.ret = PyBytes(supplied[lastOp.artefact_id])

(* C3: an update by a standard principal that is not the owner returns     *)
(* False and leaves the table as it was, whatever the source file; an      *)
(* update of an absent identifier returns False; the owner and an elevated *)
(* principal are not denied.                                               *)
C3_UpdateStep ==
    lastOp'.op = "update_artefact" =>
        LET i == lastOp'.artefact_id
            u == lastOp'.user
        IN  /\ i \notin DOMAIN artefacts =>
                 lastOp'.ret = PyBool(FALSE) /\ artefacts' = artefacts
            /\ (i \in DOMAIN artefacts /\ IsStandard(u)
                  /\ u.user_id # artefacts[i].owner_id) =>
                 lastOp'.ret = PyBool(FALSE) /\ artefacts' = artefacts
            /\ (i \in DOMAIN artefacts
                  /\ (IsElevated(u) \/ u.user_id = artefacts[i].owner_id)) =>
                 \A k \in 1..Len(lastOp'.events) :
                     lastOp'.events[k] # Printed("Permission denied")

C3_UpdateDeniedToOthers == [][C3_UpdateStep]_vars

(* A standard non-owner was refused although the new source was readable.  *)
C3_Witness ==
    /\ lastOp.op = "update_artefact"
    /\ lastOp.artefact_id \in DOMAIN artefacts
    /\ IsStandard(lastOp.user)
    /\ lastOp.user.user_id # artefacts[lastOp.artefact_id].owner_id
    /\ lastOp.file.readable
    /\ lastOp.ret = PyBool(FALSE)
    /\ HasEvent(Printed("Permission denied"))

(* C4: delete removes a row only for its owner or an elevated principal;   *)
(* for another standard principal it returns False and the row stays; for  *)
(* an absent identifier it returns False; for the owner it returns True    *)
(* and the row is gone.                                                    *)
C4_DeleteStep ==
    lastOp'.op = "delete_artefact" =>
        LET i == lastOp'.artefact_id
            u == lastOp'.user
        IN  /\ i \notin DOMAIN artefacts =>
                 lastOp'.ret = PyBool(FALSE) /\ artefacts' = artefacts
            /\ (i \in DOMAIN artefacts /\ IsStandard(u)
                  /\ u.user_id # artefacts[i].owner_id) =>
                 lastOp'.ret = PyBool(FALSE) /\ artefacts' = artefacts
            /\ (i \in DOMAIN artefacts /\ u.user_id = artefacts[i].owner_id) =>
                 lastOp'.ret = PyBool(TRUE) /\ i \notin DOMAIN artefacts'
            /\ \A j \in DOMAIN artefacts \ DOMAIN artefacts' :
                 /\ j = i
                 /\ IsElevated(u) \/ u.user_id = artefacts[j].owner_id

C4_DeleteOnlyByOwnerOrElevated == [][C4_DeleteStep]_vars

(* The standard owner deleted its own row.                                 *)
C4_Witness ==
    /\ lastOp.op = "delete_artefact"
    /\ IsStandard(lastOp.user)
    /\ lastOp.ret = PyBool(TRUE)
    /\ lastOp.artefact_id \notin DOMAIN artefacts
    /\ HasEvent(Committed(lastOp.artefact_id))

(* C5: a standard principal may view every owner's artefacts and modify or *)
(* delete exactly its own; an elevated principal may do all three to every *)
(* owner's.                                                                *)
C5_PermissionTable ==
    \A p \in principals, o \in 0..(MaxUsers + 1) :
        /\ IsStandard(p) =>
             /\ can_view_artefact(p, o) = TRUE
             /\ can_modify_artefact(p, o) = (p.user_id = o)
             /\ can_delete_artefact(p, o) = (p.user_id = o)
        /\ IsElevated(p) =>
             /\ can_view_artefact(p, o) = TRUE
             /\ can_modify_artefact(p, o) = TRUE
             /\ can_delete_artefact(p, o) = TRUE

(* A standard and an elevated principal exist and a permission was asked.  *)
C5_Witness ==
    /\ \E p \in principals : IsStandard(p)
    /\ \E p \in principals : IsElevated(p)
    /\ lastOp.op = "delete_artefact"
    /\ IsElevated(lastOp.user)
    /\ lastOp.ret = PyBool(TRUE)

(* C6, as claimed: retrieval by a standard principal that is not the owner *)
(* returns None, as for an absent identifier.                              *)
C6_OthersGetNothing ==
    (/\ lastOp.op = "get_artefact_data"
     /\ lastOp.artefact_id \in DOMAIN artefacts
     /\ IsStandard(lastOp.user)
     /\ lastOp.user.user_id # artefacts[lastOp.artefact_id].owner_id)
    => lastOp.ret = None

(* C6, amended: retrieval by a standard principal that is not the owner is *)
(* not denied: it returns the content whenever the payload decrypts under  *)
(* the active key and its digest equals the stored one, as for the owner.  *)
C6_OthersGetContent ==
    (/\ lastOp.op = "get_artefact_data"
     /\ lastOp.artefact_id \in DOMAIN artefacts
     /\ IsStandard(lastOp.user)
     /\ lastOp.user.user_id # artefacts[lastOp.artefact_id].owner_id)
    => LET artefact == artefacts[lastOp.artefact_id]
           box == artefact.encrypted_data
           opens == /\ key # None
                    /\ box.ciphertext.key = key
                    /\ box.ciphertext.nonce = box.nonce
                    /\ ~box.ciphertext.altered
           intact == sha256_hexdigest(Plaintext(artefact)) = artefact.checksum
       IN  IF opens /\ intact
           THEN lastOp.ret = PyBytes(Plaintext(artefact))
           ELSE lastOp.ret = None

(* A standard principal received the content of another's artefact.        *)
C6_Witness ==
    /\ lastOp.op = "get_artefact_data"
    /\ lastOp.artefact_id \in DOMAIN artefacts
    /\ IsStandard(lastOp.user)
    /\ lastOp.user.user_id # artefacts[lastOp.artefact_id].owner_id
    /\ lastOp.ret = PyBytes(<<97>>)

(* C7: when the digest recomputed over the decrypted plaintext differs     *)
(* from the stored one, retrieval returns None and writes nothing; a write *)
(* to the sink comes only after the comparison has passed.                 *)
C7_NoOutputOnDigestMismatch ==
    lastOp.op = "get_artefact_data" =>
        /\ \A w \in EventKinds("write") :
              \E c \in 1..(w - 1) :
                  lastOp.events[c] = Printed("Checksum verification: PASSED")
        /\ (/\ lastOp.artefact_id \in DOMAIN artefacts
            /\ HasEvent(Did("decrypt"))
            /\ sha256_hexdigest(Plaintext(artefacts[lastOp.artefact_id]))
                 # artefacts[lastOp.artefact_id].checksum)
           => /\ lastOp.ret = None
              /\ EventKinds("write") = {}

(* A retrieval with a sink decrypted the payload and found the stored      *)
(* digest different.                                                       *)
C7_Witness ==
    /\ lastOp.op = "get_artefact_data"
    /\ lastOp.output_path # ""
    /\ HasEvent(Did("decrypt"))
    /\ HasEvent(Printed("WARNING: Checksum mismatch!"))
    /\ lastOp.ret = None

(* C8: when the stored payload was altered, or the active key is not the   *)
(* key it was encrypted under, retrieval fails in decryption with          *)
(* InvalidTag, before any digest comparison; nothing is returned or        *)
(* written.                                                                *)
C8_CipherCheckFirst ==
    (/\ lastOp.op = "get_artefact_data"
     /\ lastOp.artefact_id \in DOMAIN artefacts
     /\ key # None
     /\ LET box == artefacts[lastOp.artefact_id].encrypted_data
        IN  \/ box.ciphertext.altered
            \/ box.nonce # box.ciphertext.nonce
            \/ box.ciphertext.key # key)
    => /\ lastOp.ret = None
       /\ lastOp.events = <<Printed("Error retrieving artefact: InvalidTag")>>

(* A retrieval met a payload that was altered and a digest that was        *)
(* overwritten as well.                                                    *)
C8_Witness ==
    /\ lastOp.op = "get_artefact_data"
    /\ lastOp.artefact_id \in DOMAIN artefacts
    /\ lastOp.output_path # ""
    /\ artefacts[lastOp.artefact_id].encrypted_data.ciphertext.altered
    /\ sha256_hexdigest(Plaintext(artefacts[lastOp.artefact_id]))
         # artefacts[lastOp.artefact_id].checksum
    /\ lastOp.events = <<Printed("Error retrieving artefact: InvalidTag")>>

C10_ObserverFailurePropagates ==
    (lastOp.op = "update_artefact" /\ EventKinds("raised") # {}) =>
        IsRaise(lastOp.ret)

(* C10, amended: an exception raised by an observer during update is not   *)
(* isolated, since it ends the notification loop, but it is caught inside  *)
(* update_artefact, which prints it and returns False, the row staying     *)
(* committed.                                                              *)
C10_ObserverFailureCaught ==
    (lastOp.op = "update_artefact" /\ EventKinds("raised") # {}) =>
        LET r == CHOOSE k \in EventKinds("raised") : TRUE
            at == lastOp.events[r].pos
        IN  /\ EventKinds("raised") = {r}
            /\ lastOp.ret = PyBool(FALSE)
            /\ lastOp.events[1] = Committed(lastOp.artefact_id)
            /\ \A n \in EventKinds("notify") :
                  n < r /\ lastOp.events[n].pos <= at
            /\ Cardinality(EventKinds("notify")) = at
            /\ lastOp.events[r + 1] = Printed("Error updating artefact: observer")
            /\ Len(lastOp.events) = r + 1

(* The first of two observers raised.                                      *)
C10_Witness ==
    /\ lastOp.op = "update_artefact"
    /\ Len(observers) = 2
    /\ \E r \in EventKinds("raised") : lastOp.events[r].pos = 1
    /\ lastOp.ret = PyBool(FALSE)

(* C11: no operation other than an update that returns True notifies an    *)
(* observer, and an update that returns True notifies each registered      *)
(* observer exactly once, so that the notifications an observer has        *)
(* received are as many as the updates that succeeded since it was         *)
(* registered.                                                             *)
C11_NotifiedOncePerSuccessfulUpdate ==
    IF lastOp.op = "update_artefact" /\ lastOp.ret = PyBool(TRUE)
    THEN \A pos \in 1..Len(observers) :
             Cardinality({n \in EventKinds("notify") :
                             lastOp.events[n].pos = pos}) = 1
    ELSE EventKinds("notify") = {}

(* C12: delete_user(u) leaves, in the one step that commits it, no row of  *)
(* artefacts owned by u and no row of users for u, and leaves every other  *)
(* artefact as it was; read_artefact and get_artefact_data called next on  *)
(* an identifier it removed return None.                                   *)
C12_CascadeStep ==
    /\ lastOp'.op = "delete_user" =>
          LET u == lastOp'.user.user_id
          IN  /\ \A i \in DOMAIN artefacts' : artefacts'[i].owner_id # u
              /\ u \notin DOMAIN users'
              /\ \A i \in DOMAIN artefacts :
                    IF artefacts[i].owner_id = u
                    THEN /\ i \notin DOMAIN artefacts'
                         /\ i \in lastOp'.events[1].ids
                    ELSE /\ i \in DOMAIN artefacts'
                         /\ artefacts'[i] = artefacts[i]
    /\ (/\ lastOp.op = "delete_user"
        /\ lastOp'.op \in {"read_artefact", "get_artefact_data"}
        /\ lastOp'.artefact_id \in lastOp.events[1].ids)
       => lastOp'.ret = None

C12_DeleteUserCascades == [][C12_CascadeStep]_vars

(* A user that owned two artefacts was deleted.                            *)
C12_Witness ==
    /\ lastOp.op = "delete_user"
    /\ lastOp.ret = PyBool(TRUE)
    /\ Cardinality(lastOp.events[1].ids) = 2
    /\ \A i \in lastOp.events[1].ids : i \notin DOMAIN artefacts

(* C13: a create_artefact that returns None after its validation leaves    *)
(* no row of its own: the table and the connection's open transaction are  *)
(* as they were before the call.                                           *)
C13_FailedCreateStep ==
    (lastOp'.op = "create_artefact" /\ lastOp'.ret = None) =>
        /\ artefacts' = artefacts
        /\ uncommitted' = uncommitted

C13_FailedCreateLeavesNoRow == [][C13_FailedCreateStep]_vars

(* C14: list_all_artefacts called by an elevated principal returns every   *)
(* row of artefacts, each once, with the username of its owner; called by  *)
(* any other principal it returns the empty list.                          *)
C14_ListAllReturnsEveryRecord ==
    lastOp.op = "list_all_artefacts" =>
        IF IsElevated(lastOp.user)
        THEN /\ \A i \in DOMAIN artefacts :
                   Cardinality({r \in lastOp.ret.list :
                                   r.row.artefact_id = i}) = 1
             /\ \A r \in lastOp.ret.list :
                   /\ r.row.artefact_id \in DOMAIN artefacts
                   /\ r.row = ListedColumns(artefacts[r.row.artefact_id])
                   /\ \E u \in DOMAIN users :
                         /\ u = artefacts[r.row.artefact_id].owner_id
                         /\ r.owner_username = users[u].username
        ELSE lastOp.ret = PyList({})

(* C15: the modified_at of a row is NULL when the row is created, becomes  *)
(* non-NULL exactly in an update of that row that returns True, and never  *)
(* becomes NULL again: it is NULL if and only if no update of the row has  *)
(* succeeded since its create.                                             *)
C15_ModifiedStep ==
    \A i \in DOMAIN artefacts' :
        LET succeeded == /\ lastOp'.op = "update_artefact"
                         /\ lastOp'.artefact_id = i
                         /\ lastOp'.ret = PyBool(TRUE)
        IN  IF i \notin DOMAIN artefacts
            THEN artefacts'[i].modified_at = NULL
            ELSE IF succeeded
            THEN artefacts'[i].modified_at # NULL
            ELSE artefacts'[i].modified_at = artefacts[i].modified_at

C15_ModifiedIffUpdated == [][C15_ModifiedStep]_vars

(* C16: every construction of DatabaseManager returns the same object; at  *)
(* most one connection handle is open; a construction while initialized    *)
(* opens no connection; a connection is opened only by a construction that *)
(* follows close().                                                        *)
C16_SingletonStep ==
    /\ Cardinality(singleton'.returned) <= 1
    /\ Cardinality(singleton'.handles) <= 1
    /\ lastOp'.op = "DatabaseManager" =>
          /\ singleton'.returned = {lastOp'.ret.int}
          /\ singleton.initialized =>
                /\ singleton'.handles = singleton.handles
                /\ singleton'.opened = singleton.opened
    /\ singleton'.opened # singleton.opened =>
          /\ lastOp'.op = "DatabaseManager"
          /\ lastOp.op = "close" \/ ~singleton.initialized
          /\ singleton.handles = {}
          /\ singleton'.handles = {singleton'.connection}

C17_RoundTrip ==
    (lastOp.op = "decrypt_data" /\ key # None) =>
        \A p \in Plaintexts, nonce \in CryptoNonces :
            encrypt_data(p, nonce) = Ok(lastOp.args[1]) => lastOp.ret = Ok(p)

(* A payload made under the derived key was decrypted under it.            *)
C17_Witness ==
    /\ lastOp.op = "decrypt_data"
    /\ key = DerivedKey("pw")
    /\ lastOp.args[1].ciphertext.key = key
    /\ lastOp.args[1].nonce = "n2"
    /\ lastOp.ret = Ok(<<98>>)

(* C18: verify_checksum(b, d) is true if and only if calculate_checksum(b) *)
(* is d: true on b's own checksum, false on any other digest string.       *)
C18_VerifyIffEqual ==
    lastOp.op = "verify_checksum" =>
        LET b == lastOp.args[1]
            d == lastOp.args[2]
        IN  /\ lastOp.ret = PyBool(calculate_checksum(b) = d)
            /\ verify_checksum(b, calculate_checksum(b))
            /\ \A c \in Plaintexts :
                  calculate_checksum(c) # calculate_checksum(b) =>
                      ~verify_checksum(b, calculate_checksum(c))

(* A byte string was verified against the checksum of another one.         *)
C18_Witness ==
    /\ lastOp.op = "verify_checksum"
    /\ lastOp.args[1] = <<97>>
    /\ lastOp.args[2] = calculate_checksum(<<98>>)
    /\ lastOp.ret = PyBool(FALSE)

(* C20: any two principals that register_user or login have returned with  *)
(* the same user_id have the same role and class and answer every          *)
(* permission question alike; register_user never returns a user_id that   *)
(* an earlier user had, deleted or not.                                    *)
C20_IdentityStep ==
    /\ \A p, q \in principals' :
          p.user_id = q.user_id =>
              /\ p.role = q.role
              /\ p.class = q.class
              /\ \A o \in 0..(MaxUsers + 1) :
                    /\ can_view_artefact(p, o) = can_view_artefact(q, o)
                    /\ can_modify_artefact(p, o) = can_modify_artefact(q, o)
                    /\ can_delete_artefact(p, o) = can_delete_artefact(q, o)
    /\ (lastOp'.op = "register_user" /\ ~IsRaise(lastOp'.ret)) =>
          \A p \in principals : lastOp'.ret.ok.user_id > p.user_id

C20_SameIdSamePermissions == [][C20_IdentityStep]_vars

(* A username was registered again, with another role, after its first     *)
(* user was deleted, and its new user has logged in.                       *)
C20_Witness ==
    /\ lastOp.op = "login"
    /\ lastOp.ret \in principals
    /\ \E p \in principals :
          /\ p.username = lastOp.ret.username
          /\ p.user_id # lastOp.ret.user_id
          /\ p.role # lastOp.ret.role
          /\ p.user_id \notin DOMAIN users

(* C19, as claimed: after an exception has escaped a menu operation the    *)
(* menu loop goes on; the loop has ended only by the exit choice or by an  *)
(* interrupt.                                                              *)
C19_LoopContinues ==
    /\ (/\ lastOp.op = "menu"
        /\ IsRaise(lastOp.ret)
        /\ lastOp.ret # Raise("KeyboardInterrupt")) => run.pc = "menu"
    /\ run.pc = "exited" =>
          lastOp.ret \in {None, Raise("KeyboardInterrupt")}

(* C19, amended: an exception that escapes a menu operation ends the loop: *)
(* main() reports it as a fatal error and exits with status 1, the         *)
(* connection closed.  The exit choice and an interrupt end the loop with  *)
(* status 0.  An exception handled inside the operation does not end it.   *)
C19_EscapeIsFatal ==
    /\ (/\ lastOp.op = "menu"
        /\ IsRaise(lastOp.ret)
        /\ lastOp.ret # Raise("KeyboardInterrupt"))
       => /\ run = [pc |-> "exited", exit_code |-> PyInt(1)]
          /\ lastOp.events = <<Printed("Fatal error")>>
          /\ singleton.handles = {}
    /\ (lastOp.op = "menu" /\ lastOp.ret \in {None, Raise("KeyboardInterrupt")})
       => /\ run = [pc |-> "exited", exit_code |-> PyInt(0)]
          /\ singleton.handles = {}
    /\ run.pc = "exited" => lastOp.op = "menu"
    /\ lastOp.op # "menu" => run = [pc |-> "menu", exit_code |-> None]

(* An exception escaped a menu operation while a user was logged in.       *)
C19_Witness ==
    /\ lastOp.op = "menu"
    /\ lastOp.ret = Raise("EOFError")
    /\ current_user # None
    /\ run.pc = "exited"

(* C21: the owner_id of every stored artefact is the user_id of a row of   *)
(* users.                                                                  *)
C21_OwnerExists ==
    \A i \in DOMAIN artefacts : artefacts[i].owner_id \in DOMAIN users

(* C22: login returns a principal if and only if a row of users has the    *)
(* username and the digest of the password given; the principal carries    *)
(* that row's user_id, username and role and is an AdminUser exactly for   *)
(* role admin; login changes no table and not the current user.            *)
C22_LoginStep ==
    lastOp'.op = "login" =>
        LET username == lastOp'.events[1].e
            password == lastOp'.events[2].e
            rows == {u \in DOMAIN users :
                        /\ users[u].username = username
                        /\ users[u].password_hash = hash_password(password)}
            user == lastOp'.ret
        IN  /\ (user # None) <=> (rows # {})
            /\ user # None =>
                  \E u \in rows :
                      /\ user.user_id = u
                      /\ user.username = users[u].username
                      /\ user.role = users[u].role
                      /\ (user.class = "AdminUser") <=> (users[u].role = "admin")
                      /\ user.class \in {"AdminUser", "User"}
            /\ UNCHANGED <<users, user_seq, artefacts, artefact_seq,
                           uncommitted, current_user>>

C22_LoginIffCredentials == [][C22_LoginStep]_vars

(* While somebody else is logged in, a login with the registered password  *)
(* of a user that was deleted has failed.                                  *)
C22_Witness ==
    /\ lastOp.op = "login"
    /\ lastOp.ret = None
    /\ lastOp.events[2] = Did("pw")
    /\ \E p \in principals : p.username = lastOp.events[1].e
    /\ db_get_user(lastOp.events[1].e) = None
    /\ current_user # None

(* C23: an update_artefact of row i that returns True leaves the rows of   *)
(* artefacts the same set, changes of row i at most encrypted_data,        *)
(* checksum and modified_at (artefact_id, owner_id, artefact_name,         *)
(* artefact_type, file_path and created_at are as before, whoever the      *)
(* updater is), and leaves every other row as it was.                      *)
C23_UpdateFrameStep ==
    (lastOp'.op = "update_artefact" /\ lastOp'.ret = PyBool(TRUE)) =>
        LET i == lastOp'.artefact_id
        IN  /\ DOMAIN artefacts' = DOMAIN artefacts
            /\ i \in DOMAIN artefacts
            /\ artefacts'[i] =
                  [artefacts[i] EXCEPT
                      !.encrypted_data = artefacts'[i].encrypted_data,
                      !.checksum = artefacts'[i].checksum,
                      !.modified_at = artefacts'[i].modified_at]
            /\ artefacts'[i].artefact_id = i
            /\ artefacts'[i].owner_id = artefacts[i].owner_id
            /\ \A j \in DOMAIN artefacts \ {i} : artefacts'[j] = artefacts[j]

C23_UpdateFrame == [][C23_UpdateFrameStep]_vars

(* An administrator who is not the owner has updated one of two stored     *)
(* artefacts with other content: its payload, checksum and modified_at     *)
(* differ from those of the artefact left alone.                           *)
C23_Witness ==
    /\ lastOp.op = "update_artefact"
    /\ lastOp.ret = PyBool(TRUE)
    /\ lastOp.artefact_id \in DOMAIN artefacts
    /\ IsElevated(lastOp.user)
    /\ artefacts[lastOp.artefact_id].owner_id # lastOp.user.user_id
    /\ artefacts[lastOp.artefact_id].modified_at # NULL
    /\ \E j \in DOMAIN artefacts :
          /\ j # lastOp.artefact_id
          /\ artefacts[j].modified_at = NULL
          /\ artefacts[j].encrypted_data
                # artefacts[lastOp.artefact_id].encrypted_data
          /\ artefacts[j].checksum # artefacts[lastOp.artefact_id].checksum

(* C24: an identifier becomes a row of artefacts only in a create_artefact *)
(* that returns it, and the identifier returned is larger than every       *)
(* identifier handed out before; a row leaves the table only in a          *)
(* delete_artefact of it that returns True or in a delete_user of its      *)
(* owner; identifiers handed out are never handed out again; on an         *)
(* identifier that is not in the table read_artefact and get_artefact_data *)
(* return None and update_artefact and delete_artefact return False.       *)
C24_ActivationStep ==
    /\ \A i \in DOMAIN artefacts' \ DOMAIN artefacts :
          /\ lastOp'.op = "create_artefact"
          /\ lastOp'.ret = PyInt(i)
    /\ (lastOp'.op = "create_artefact" /\ lastOp'.ret \notin {None} /\ ~IsRaise(lastOp'.ret))
          => /\ lastOp'.ret.int > artefact_seq
             /\ lastOp'.ret.int \notin DOMAIN artefacts
             /\ lastOp'.ret.int \in DOMAIN artefacts'

C24_RemovalStep ==
    /\ artefact_seq' >= artefact_seq
    /\ \A i \in DOMAIN artefacts' : i <= artefact_seq'
    /\ \A i \in DOMAIN artefacts \ DOMAIN artefacts' :
          \/ /\ lastOp'.op = "delete_artefact"
             /\ lastOp'.artefact_id = i
             /\ lastOp'.ret = PyBool(TRUE)
          \/ /\ lastOp'.op = "delete_user"
             /\ artefacts[i].owner_id = lastOp'.user.user_id
    /\ (/\ lastOp'.op \in {"read_artefact", "get_artefact_data"}
        /\ lastOp'.artefact_id \notin DOMAIN artefacts)
          => lastOp'.ret = None
    /\ (/\ lastOp'.op \in {"update_artefact", "delete_artefact"}
        /\ lastOp'.artefact_id \notin DOMAIN artefacts)
          => lastOp'.ret = PyBool(FALSE)

C24_LegalTransitions == [][C24_ActivationStep /\ C24_RemovalStep]_vars

(* C25: update_artefact returns True if and only if the call has written   *)
(* and committed the row's encrypted_data and checksum, which are then     *)
(* those of the file given; whenever it does not return True, whatever the *)
(* reason, the table is as it was before the call.                         *)
C25_UpdateReturnStep ==
    lastOp'.op = "update_artefact" =>
        LET i == lastOp'.artefact_id
            written == \E k \in 1..Len(lastOp'.events) :
                           lastOp'.events[k] = Committed(i)
        IN  /\ (lastOp'.ret = PyBool(TRUE)) <=> written
            /\ lastOp'.ret = PyBool(TRUE) =>
                  /\ i \in DOMAIN artefacts'
                  /\ Plaintext(artefacts'[i]) = lastOp'.file.data
                  /\ artefacts'[i].checksum
                        = calculate_checksum(lastOp'.file.data)
            /\ lastOp'.ret # PyBool(TRUE) => artefacts' = artefacts

C25_UpdateReturnReflectsStore == [][C25_UpdateReturnStep]_vars

====
